---- MODULE Spec2Model ----
(***************************************************************************)
(* Model of mkdocs_static_i18n/struct.py: the Locale config option, the    *)
(* I18nFile resolver and the I18nFiles collection.                         *)
(*                                                                         *)
(* Strings (paths, URLs, language codes) are sequences of lexemes.  A      *)
(* lexeme is either a word (a maximal non-empty run of ASCII letters,      *)
(* digits, "_", "-" and "~") or one single other character: "/", ".", " ", *)
(* "%", a newline, an accented letter, ...  A character that cannot be     *)
(* written in a string of a module (the grave accent, NUL, any character   *)
(* above U+00FF) is the lexeme "<U+XXXX>", XXXX being its code point in    *)
(* hexadecimal.  Every string operation of the code (rfind, split,         *)
(* startswith, concatenation, the pathlib and os.path rules,               *)
(* percent-encoding) is carried out on these sequences as the code carries *)
(* it out on characters.  Paths are POSIX; the file system is that of      *)
(* Linux, with file names encoded in UTF-8, no symbolic links, and every   *)
(* directory open to search.  The strings handed to Locale.run_validation  *)
(* are sequences of single characters, as the regular expression reads     *)
(* them.                                                                   *)
(***************************************************************************)
EXTENDS Integers, Sequences, FiniteSets, TLC

VARIABLES
    locale,              \* I18nFiles.locale / I18nFile language argument (a string)
    default_locale,      \* I18nFiles.default_locale / default_language
    all_languages,       \* I18nFile all_languages argument (ordered)
    use_directory_urls,  \* the use_directory_urls argument: "True", "False", "None"
    fs,                  \* the files on disk, by their path relative to docs_dir
    files,               \* I18nFiles._files
    appended,            \* history: every file handed to I18nFiles.append
    input,               \* the argument drawn for a single call (a path, a config value)
    ret                  \* the outcome of the last operation

vars == <<locale, default_locale, all_languages, use_directory_urls, fs,
          files, appended, input, ret>>

(***************************************************************************)
(* Bounds of the model.                                                    *)
(***************************************************************************)
MaxAppends == 3
MaxLocaleLen == 5

None == <<"<None>">>
Unset == <<"<unset>">>
Idle == [op |-> "idle"]
\* The None a lookup returns when no file is found.
NoFile == [src_path |-> <<>>]
\* The outcome of a pathlib call that raises ValueError.
ValueError == <<"<ValueError>">>
\* The outcome of urllib's quote when it raises UnicodeEncodeError.
UnicodeEncodeError == <<"<UnicodeEncodeError>">>

(***************************************************************************)
(* String helpers (str.rfind, str.split, str.lstrip, str.rstrip, join).    *)
(* A value that a definition reads more than once is handed to a helper as *)
(* an argument, so that it is written, and worked out, once.               *)
(***************************************************************************)
Range(s) == {s[i] : i \in 1..Len(s)}

Max(I) == IF I = {} THEN 0 ELSE CHOOSE i \in I : \A j \in I : j <= i
Min(I) == IF I = {} THEN 0 ELSE CHOOSE i \in I : \A j \in I : i <= j

\* 1 + s.rfind(c), 1 + s.find(c): 0 when c does not occur.
LastIndexOf(s, c) == Max({i \in 1..Len(s) : s[i] = c})
FirstIndexOf(s, c) == Min({i \in 1..Len(s) : s[i] = c})

\* s.split(c)
RECURSIVE Split(_, _)
SplitAt(s, c, i) ==
    IF i = 0 THEN <<s>>
    ELSE <<SubSeq(s, 1, i - 1)>> \o Split(SubSeq(s, i + 1, Len(s)), c)
Split(s, c) == SplitAt(s, c, FirstIndexOf(s, c))

RECURSIVE LStrip(_, _)
LStrip(s, c) ==
    IF s # <<>> /\ Head(s) = c THEN LStrip(Tail(s), c) ELSE s

RECURSIVE RStrip(_, _)
RStrip(s, c) ==
    IF s # <<>> /\ s[Len(s)] = c THEN RStrip(SubSeq(s, 1, Len(s) - 1), c) ELSE s

\* "".join(ss), one half after the other.
RECURSIVE Concat(_)
Concat(ss) ==
    IF ss = <<>> THEN <<>>
    ELSE IF Len(ss) = 1 THEN ss[1]
    ELSE Concat(SubSeq(ss, 1, Len(ss) \div 2))
             \o Concat(SubSeq(ss, (Len(ss) \div 2) + 1, Len(ss)))

\* "/".join(parts)
RECURSIVE JoinParts(_)
JoinParts(parts) ==
    IF parts = <<>> THEN <<>>
    ELSE IF Len(parts) = 1 THEN parts[1]
    ELSE parts[1] \o <<"/">> \o JoinParts(Tail(parts))

(***************************************************************************)
(* pathlib.PurePosixPath and os.path, as struct.py uses them.              *)
(***************************************************************************)
\* The root of a path with n leading slashes: "//" for exactly two.
RootOf(n) == IF n = 0 THEN <<>> ELSE IF n = 2 THEN <<"/", "/">> ELSE <<"/">>

\* The root pathlib parses off a path (and the initial slashes that
\* os.path.normpath keeps).
PathRoot(p) == RootOf(Len(p) - Len(LStrip(p, "/")))

\* The components pathlib keeps: empty and "." components are dropped.
PathParts(p) ==
    SelectSeq(Split(p, "/"), LAMBDA c : c # <<>> /\ c # <<".">>)

\* str() of the path with the given root and components.
PathFromParts(root, parts) ==
    IF parts = <<>> /\ root = <<>> THEN <<".">> ELSE root \o JoinParts(parts)

\* str(Path(p))
PathStr(p) == PathFromParts(PathRoot(p), PathParts(p))

\* The final component, "" when there is none.
LastPart(parts) == IF parts = <<>> THEN <<>> ELSE parts[Len(parts)]

\* Path(p).name
PathName(p) == LastPart(PathParts(p))

\* The suffix of a name whose last dot is at i: none when the dot leads or
\* ends the name.
SuffixAt(name, i) ==
    IF 1 < i /\ i < Len(name) THEN SubSeq(name, i, Len(name)) ELSE <<>>

NameSuffix(name) == SuffixAt(name, LastIndexOf(name, "."))

\* Path(p).suffix
PathSuffix(p) == NameSuffix(PathName(p))

DotEach(parts) == [i \in 1..Len(parts) |-> <<".">> \o parts[i]]

\* The suffixes of a name: every "."-part after the first, none when the
\* name ends with a dot.
NameSuffixes(name) ==
    IF name # <<>> /\ name[Len(name)] = "." THEN <<>>
    ELSE DotEach(Tail(Split(LStrip(name, "."), ".")))

\* Path(p).suffixes
PathSuffixes(p) == NameSuffixes(PathName(p))

\* name[:-len(old_suffix)] + suffix
ReplaceSuffix(name, old_suffix, suffix) ==
    SubSeq(name, 1, Len(name) - Len(old_suffix)) \o suffix

\* with_suffix on a parsed path: an invalid suffix or an empty name raises
\* ValueError.
WithSuffixParts(p, root, parts, suffix) ==
    IF \/ p = ValueError
       \/ "/" \in Range(suffix)
       \/ (suffix # <<>> /\ Head(suffix) # ".")
       \/ suffix = <<".">>
       \/ parts = <<>>
    THEN ValueError
    ELSE PathFromParts(root,
             SubSeq(parts, 1, Len(parts) - 1)
                 \o <<ReplaceSuffix(LastPart(parts), NameSuffix(LastPart(parts)),
                                    suffix)>>)

\* str(Path(p).with_suffix(suffix)): the old suffix, if any, replaced.
PathWithSuffix(p, suffix) ==
    WithSuffixParts(p, PathRoot(p), PathParts(p), suffix)

\* str(Path(a) / Path(b)): an absolute b replaces a.
PathJoin(a, b) ==
    IF PathRoot(b) # <<>> THEN PathStr(b)
    ELSE PathFromParts(PathRoot(a), PathParts(a) \o PathParts(b))

RelativeParts(same_root, pp, bp) ==
    IF same_root /\ Len(bp) <= Len(pp) /\ SubSeq(pp, 1, Len(bp)) = bp
    THEN IF Len(pp) = Len(bp) THEN <<".">>
         ELSE JoinParts(SubSeq(pp, Len(bp) + 1, Len(pp)))
    ELSE ValueError

\* str(Path(p).relative_to(base)); ValueError when p is not under base.
PathRelativeTo(p, base) ==
    RelativeParts(PathRoot(p) = PathRoot(base), PathParts(p), PathParts(base))

\* The head of os.path.split loses its trailing slashes unless it is made
\* of slashes only.
SplitHead(head) ==
    IF head # <<>> /\ Range(head) # {"/"} THEN RStrip(head, "/") ELSE head

SplitAround(p, i) ==
    [head |-> SplitHead(SubSeq(p, 1, i)), tail |-> SubSeq(p, i + 1, Len(p))]

\* os.path.split(p): (head, tail) around the last "/".
OsPathSplit(p) == SplitAround(p, LastIndexOf(p, "/"))

\* os.path.join(a, b): an absolute b replaces a.
OsPathJoin(a, b) ==
    IF b # <<>> /\ Head(b) = "/" THEN b
    ELSE IF a = <<>> \/ a[Len(a)] = "/" THEN a \o b
    ELSE a \o <<"/">> \o b

SplitextAt(p, sep, dot) ==
    IF dot > sep /\ \E k \in (sep + 1)..(dot - 1) : p[k] # "."
    THEN [root |-> SubSeq(p, 1, dot - 1), ext |-> SubSeq(p, dot, Len(p))]
    ELSE [root |-> p, ext |-> <<>>]

\* os.path.splitext(p): the extension starts at the last dot of the final
\* component, unless only dots precede it there.
OsPathSplitext(p) == SplitextAt(p, LastIndexOf(p, "/"), LastIndexOf(p, "."))

\* The component loop of os.path.normpath.
RECURSIVE NormComps(_, _, _)
NormStep(comp, rest, new_comps, n, rooted) ==
    IF comp = <<>> \/ comp = <<".">>
    THEN NormComps(rest, new_comps, rooted)
    ELSE IF \/ comp # <<".", ".">>
            \/ (~rooted /\ n = 0)
            \/ (n > 0 /\ new_comps[n] = <<".", ".">>)
    THEN NormComps(rest, Append(new_comps, comp), rooted)
    ELSE NormComps(rest, SubSeq(new_comps, 1, n - 1), rooted)
NormComps(comps, new_comps, rooted) ==
    IF comps = <<>> THEN new_comps
    ELSE NormStep(Head(comps), Tail(comps), new_comps, Len(new_comps), rooted)

DotIfEmpty(path) == IF path = <<>> THEN <<".">> ELSE path

NormFrom(p, root) ==
    DotIfEmpty(root \o JoinParts(NormComps(Split(p, "/"), <<>>, root # <<>>)))

\* os.path.normpath(p)
OsPathNormpath(p) == NormFrom(p, PathRoot(p))

(***************************************************************************)
(* Collaborators of struct.py: the build configuration, urllib's quote and *)
(* the mkdocs File the walker hands to I18nFile (file_from).               *)
(***************************************************************************)
docs_dir == <<"/", "docs">>
site_dir == <<"/", "site">>

\* mkdocs.utils.markdown_extensions, read by File.is_documentation_page.
MarkdownExtensions ==
    {<<".", "md">>, <<".", "markdown">>, <<".", "mdown">>, <<".", "mkdn">>,
     <<".", "mkd">>}

\* File.is_documentation_page: os.path.splitext(src_path)[1] is a markdown
\* extension.
is_documentation_page(src_path) ==
    OsPathSplitext(src_path).ext \in MarkdownExtensions

\* The grave accent, as a lexeme.
GraveAccent == "<U+0060>"

HexDigits ==
    <<"0", "1", "2", "3", "4", "5", "6", "7", "8", "9", "A", "B", "C", "D", "E", "F">>

HexValue(d) == (CHOOSE i \in 1..16 : HexDigits[i] = d) - 1

\* The number written by the hexadecimal digits s, after those read (acc).
RECURSIVE ParseHex(_, _)
ParseHex(s, acc) ==
    IF s = "" THEN acc ELSE ParseHex(Tail(s), 16 * acc + HexValue(Head(s)))

\* The code point of every character that can be written as a lexeme of
\* one character, other than "/" and ".": U+0001 to U+00FF without the
\* ASCII letters and digits, "_", "-", "~" and the grave accent.
CharCode ==
    "" :> 1 @@ "" :> 2 @@ "" :> 3 @@ "" :> 4 @@ "" :> 5 @@ "" :> 6
    @@ "" :> 7 @@ "" :> 8 @@ "\t" :> 9 @@ "\n" :> 10 @@ "" :> 11 @@ "\f" :> 12
    @@ "\r" :> 13 @@ "" :> 14 @@ "" :> 15 @@ "" :> 16 @@ "" :> 17 @@ "" :> 18
    @@ "" :> 19 @@ "" :> 20 @@ "" :> 21 @@ "" :> 22 @@ "" :> 23 @@ "" :> 24
    @@ "" :> 25 @@ "" :> 26 @@ "" :> 27 @@ "" :> 28 @@ "" :> 29 @@ "" :> 30
    @@ "" :> 31 @@ " " :> 32 @@ "!" :> 33 @@ "\"" :> 34 @@ "#" :> 35 @@ "$" :> 36
    @@ "%" :> 37 @@ "&" :> 38 @@ "'" :> 39 @@ "(" :> 40 @@ ")" :> 41 @@ "*" :> 42
    @@ "+" :> 43 @@ "," :> 44 @@ ":" :> 58 @@ ";" :> 59 @@ "<" :> 60 @@ "=" :> 61
    @@ ">" :> 62 @@ "?" :> 63 @@ "@" :> 64 @@ "[" :> 91 @@ "\\" :> 92 @@ "]" :> 93
    @@ "^" :> 94 @@ "{" :> 123 @@ "|" :> 124 @@ "}" :> 125 @@ "" :> 127 @@ "" :> 128
    @@ "" :> 129 @@ "" :> 130 @@ "" :> 131 @@ "" :> 132 @@ "" :> 133 @@ "" :> 134
    @@ "" :> 135 @@ "" :> 136 @@ "" :> 137 @@ "" :> 138 @@ "" :> 139 @@ "" :> 140
    @@ "" :> 141 @@ "" :> 142 @@ "" :> 143 @@ "" :> 144 @@ "" :> 145 @@ "" :> 146
    @@ "" :> 147 @@ "" :> 148 @@ "" :> 149 @@ "" :> 150 @@ "" :> 151 @@ "" :> 152
    @@ "" :> 153 @@ "" :> 154 @@ "" :> 155 @@ "" :> 156 @@ "" :> 157 @@ "" :> 158
    @@ "" :> 159 @@ " " :> 160 @@ "¡" :> 161 @@ "¢" :> 162 @@ "£" :> 163 @@ "¤" :> 164
    @@ "¥" :> 165 @@ "¦" :> 166 @@ "§" :> 167 @@ "¨" :> 168 @@ "©" :> 169 @@ "ª" :> 170
    @@ "«" :> 171 @@ "¬" :> 172 @@ "­" :> 173 @@ "®" :> 174 @@ "¯" :> 175 @@ "°" :> 176
    @@ "±" :> 177 @@ "²" :> 178 @@ "³" :> 179 @@ "´" :> 180 @@ "µ" :> 181 @@ "¶" :> 182
    @@ "·" :> 183 @@ "¸" :> 184 @@ "¹" :> 185 @@ "º" :> 186 @@ "»" :> 187 @@ "¼" :> 188
    @@ "½" :> 189 @@ "¾" :> 190 @@ "¿" :> 191 @@ "À" :> 192 @@ "Á" :> 193 @@ "Â" :> 194
    @@ "Ã" :> 195 @@ "Ä" :> 196 @@ "Å" :> 197 @@ "Æ" :> 198 @@ "Ç" :> 199 @@ "È" :> 200
    @@ "É" :> 201 @@ "Ê" :> 202 @@ "Ë" :> 203 @@ "Ì" :> 204 @@ "Í" :> 205 @@ "Î" :> 206
    @@ "Ï" :> 207 @@ "Ð" :> 208 @@ "Ñ" :> 209 @@ "Ò" :> 210 @@ "Ó" :> 211 @@ "Ô" :> 212
    @@ "Õ" :> 213 @@ "Ö" :> 214 @@ "×" :> 215 @@ "Ø" :> 216 @@ "Ù" :> 217 @@ "Ú" :> 218
    @@ "Û" :> 219 @@ "Ü" :> 220 @@ "Ý" :> 221 @@ "Þ" :> 222 @@ "ß" :> 223 @@ "à" :> 224
    @@ "á" :> 225 @@ "â" :> 226 @@ "ã" :> 227 @@ "ä" :> 228 @@ "å" :> 229 @@ "æ" :> 230
    @@ "ç" :> 231 @@ "è" :> 232 @@ "é" :> 233 @@ "ê" :> 234 @@ "ë" :> 235 @@ "ì" :> 236
    @@ "í" :> 237 @@ "î" :> 238 @@ "ï" :> 239 @@ "ð" :> 240 @@ "ñ" :> 241 @@ "ò" :> 242
    @@ "ó" :> 243 @@ "ô" :> 244 @@ "õ" :> 245 @@ "ö" :> 246 @@ "÷" :> 247 @@ "ø" :> 248
    @@ "ù" :> 249 @@ "ú" :> 250 @@ "û" :> 251 @@ "ü" :> 252 @@ "ý" :> 253 @@ "þ" :> 254
    @@ "ÿ" :> 255

\* A lexeme "<U+XXXX>".
IsNamed(x) == Len(x) > 1 /\ Head(x) = "<"

\* The characters CharCode lists.
SpecialChars == DOMAIN CharCode

\* A lexeme that is one character other than "/" and ".".
IsSpecial(x) == IsNamed(x) \/ x \in SpecialChars

\* A lexeme that is a word.
IsWord(x) == ~IsSpecial(x) /\ x \notin {"/", "."}

\* ord(c) of a character other than "/" and ".".
CodePoint(x) ==
    IF IsNamed(x) THEN ParseHex(SubSeq(x, 4, Len(x) - 1), 0) ELSE CharCode[x]

\* A surrogate code point: str.encode("utf-8") raises on it.
IsSurrogate(cp) == 55296 <= cp /\ cp <= 57343

\* The bytes of chr(cp).encode("utf-8").
Utf8(cp) ==
    IF cp < 128 THEN <<cp>>
    ELSE IF cp < 2048 THEN <<192 + (cp \div 64), 128 + (cp % 64)>>
    ELSE IF cp < 65536
    THEN <<224 + (cp \div 4096), 128 + ((cp \div 64) % 64), 128 + (cp % 64)>>
    ELSE <<240 + (cp \div 262144), 128 + ((cp \div 4096) % 64),
           128 + ((cp \div 64) % 64), 128 + (cp % 64)>>

\* "{:02X}".format(b)
Hex2(b) == HexDigits[(b \div 16) + 1] \o HexDigits[(b % 16) + 1]

HexBytes(bytes) == [i \in 1..Len(bytes) |-> Hex2(bytes[i])]

\* The bytes, in hexadecimal, that urllib.parse.quote(s) writes for a
\* character it encodes: the bytes of its UTF-8 encoding.
QuoteCode(x) == HexBytes(Utf8(CodePoint(x)))

\* "%" before each byte.
PercentEach(bytes) == Concat([i \in 1..Len(bytes) |-> <<"%", bytes[i]>>])

\* urllib.parse.quote on one lexeme: a word, "/" and "." are kept (letters,
\* digits, "_", ".", "-", "~" and the safe "/"), any other character
\* becomes its bytes, each after a "%".
QuoteLexeme(x) == IF IsSpecial(x) THEN PercentEach(QuoteCode(x)) ELSE <<x>>

\* The lexemes of the text a + b: a word that ends a and a word that
\* starts b are one word.
JoinWords(a, b) ==
    IF a # <<>> /\ b # <<>> /\ IsWord(a[Len(a)]) /\ IsWord(b[1])
    THEN SubSeq(a, 1, Len(a) - 1) \o <<a[Len(a)] \o b[1]>> \o Tail(b)
    ELSE a \o b

\* The lexemes of the text written by the pieces s, one half after the
\* other: the hex digits of a code and the word that follows them are one
\* word.
RECURSIVE MergeWords(_)
MergeWords(s) ==
    IF Len(s) <= 1 THEN s
    ELSE JoinWords(MergeWords(SubSeq(s, 1, Len(s) \div 2)),
                   MergeWords(SubSeq(s, (Len(s) \div 2) + 1, Len(s))))

\* The text holds a surrogate.
HasSurrogate(url) ==
    \E i \in 1..Len(url) : IsSpecial(url[i]) /\ IsSurrogate(CodePoint(url[i]))

\* urllib.parse.quote(url): url.encode("utf-8") raises UnicodeEncodeError
\* on a surrogate.
urlquote(url) ==
    IF HasSurrogate(url) THEN UnicodeEncodeError
    ELSE MergeWords(Concat([i \in 1..Len(url) |-> QuoteLexeme(url[i])]))

\* File._get_stem of mkdocs, and I18nFile._get_stem: index and README are
\* both named index.
StemName(stem) ==
    IF stem \in {<<"index">>, <<"README">>} THEN <<"index">> ELSE stem

\* File._get_dest_path of mkdocs: `not use_directory_urls` holds of False
\* and of None.
FileDestPath(src_path, parent, name, udu) ==
    IF is_documentation_page(src_path)
    THEN IF udu # "True" \/ name = <<"index">>
         THEN OsPathJoin(parent, name \o <<".", "html">>)
         ELSE OsPathJoin(OsPathJoin(parent, name), <<"index", ".", "html">>)
    ELSE src_path

FileFields(src_path, dest_path) ==
    [src_path |-> src_path,
     abs_src_path |-> OsPathNormpath(OsPathJoin(docs_dir, src_path)),
     dest_path |-> dest_path,
     abs_dest_path |-> OsPathNormpath(OsPathJoin(site_dir, dest_path))]

FileOf(src_path, split, udu) ==
    FileFields(src_path,
               FileDestPath(src_path, split.head,
                            StemName(OsPathSplitext(split.tail).root), udu))

FileAt(src_path, udu) == FileOf(src_path, OsPathSplit(src_path), udu)

\* The mkdocs File built by the walker for a path: the fields I18nFile reads.
FileFrom(path, udu) == FileAt(OsPathNormpath(path), udu)

(***************************************************************************)
(* I18nFile                                                                *)
(***************************************************************************)
\* The first language of the list whose suffix, together with the file's
\* extension, is among the suffixes.
FirstLocalized(all_langs, suffix, suffixes) ==
    Min({i \in 1..Len(all_langs) :
            {<<".">> \o all_langs[i], suffix} \subseteq suffixes})

LanguageAt(all_langs, i) == IF i = 0 THEN None ELSE all_langs[i]

\* I18nFile._is_localized_for
is_localized_for(initial_src_path, all_langs) ==
    LanguageAt(all_langs,
               FirstLocalized(all_langs, PathSuffix(initial_src_path),
                              Range(PathSuffixes(initial_src_path))))

\* I18nFile.non_i18n_src_path
non_i18n_src_path(initial_src_path, all_langs) ==
    IF is_localized_for(initial_src_path, all_langs) = None
    THEN PathWithSuffix(initial_src_path, <<>>)
    ELSE PathWithSuffix(PathWithSuffix(initial_src_path, <<>>), <<>>)

\* I18nFile._get_stem.  The name of the Path that with_suffix returns is the
\* final component it was built with, that is the text after the last "/"
\* of its str() (for "..md" this is ".", which parsing "." anew would drop).
get_stem(initial_src_path, all_langs) ==
    StemName(OsPathSplit(non_i18n_src_path(initial_src_path, all_langs)).tail)

\* The candidate list of I18nFile.__init__, in the order it is tried: each
\* path is Path(docs_dir) / Path(f"{non_i18n_src_path}.{language}{suffix}").
expected_paths(stem, suffix, language, default_language) ==
    << [locale_suffix |-> language,
        path |-> PathJoin(docs_dir, stem \o <<".">> \o language \o suffix)],
       [locale_suffix |-> default_language,
        path |-> PathJoin(docs_dir, stem \o <<".">> \o default_language \o suffix)],
       [locale_suffix |-> None, path |-> PathJoin(docs_dir, stem \o suffix)] >>

\* I18nFile._get_dest_path: `use_directory_urls is False` holds of False
\* only.
get_dest_path(src_path, name, dest_name, udu) ==
    IF is_documentation_page(src_path)
    THEN IF udu = "False" \/ name = <<"index">>
         THEN OsPathJoin(OsPathSplit(src_path).head, name \o <<".", "html">>)
         ELSE OsPathJoin(OsPathJoin(OsPathSplit(src_path).head, name),
                         <<"index", ".", "html">>)
    ELSE OsPathJoin(OsPathSplit(src_path).head, dest_name)

\* _get_url before the locale prefix: the directory of an index.html when
\* use_directory_urls is true ("." at the root), else the destination path.
url_of_dest(dest_path, split, udu) ==
    IF udu = "True" /\ split.tail = <<"index", ".", "html">>
    THEN IF split.head = <<>> THEN <<".">> ELSE split.head \o <<"/">>
    ELSE dest_path

\* The locale prefix of _get_url.
url_with_language(url, dest_language) ==
    IF dest_language # <<>>
    THEN IF url = <<".">> THEN dest_language \o <<"/">>
         ELSE dest_language \o <<"/">> \o url
    ELSE url

\* I18nFile._get_url
get_url(dest_path, dest_language, udu) ==
    urlquote(url_with_language(
                 url_of_dest(dest_path, OsPathSplit(dest_path), udu),
                 dest_language))

\* The longest file name and the longest path, in bytes, that the system
\* takes (NAME_MAX, and PATH_MAX with its final NUL).
NameMax == 255
PathMax == 4096

\* A surrogate that os.fsencode turns back into the byte it stands for
\* (U+DC80 to U+DCFF, for the bytes 0x80 to 0xFF).
IsEscapedByte(cp) == 56448 <= cp /\ cp <= 56575

\* A character os.stat cannot be given: NUL, or a surrogate that stands for
\* no byte.
NotEncodable(cp) == cp = 0 \/ (IsSurrogate(cp) /\ ~IsEscapedByte(cp))

HasNotEncodable(path) ==
    \E i \in 1..Len(path) : IsSpecial(path[i]) /\ NotEncodable(CodePoint(path[i]))

ByteNames(bytes) == [i \in 1..Len(bytes) |-> "<" \o Hex2(bytes[i]) \o ">"]

FsBytesOf(cp) ==
    ByteNames(IF IsEscapedByte(cp) THEN <<cp - 56320>> ELSE Utf8(cp))

\* os.fsencode on one lexeme: a word, "/" and "." are their own bytes, any
\* other character becomes its bytes, each written "<XX>".
FsLexeme(x) == IF IsSpecial(x) THEN FsBytesOf(CodePoint(x)) ELSE <<x>>

\* os.fsencode(s): the bytes of the text.
FsEncode(s) == Concat([i \in 1..Len(s) |-> FsLexeme(s[i])])

FsParts(parts) == [i \in 1..Len(parts) |-> FsEncode(parts[i])]

\* The number of bytes of an encoded text, one half after the other.
RECURSIVE ByteLen(_)
ByteLen(bytes) ==
    IF bytes = <<>> THEN 0
    ELSE IF Len(bytes) = 1
    THEN (IF Head(bytes[1]) = "<" THEN 1 ELSE Len(bytes[1]))
    ELSE ByteLen(SubSeq(bytes, 1, Len(bytes) \div 2))
             + ByteLen(SubSeq(bytes, (Len(bytes) \div 2) + 1, Len(bytes)))

\* The files on disk, each as the list of its components from the root, in
\* bytes.  `existing` names a file by its path relative to docs_dir ("../x"
\* or an absolute path for a file outside docs_dir).
FileNodes(existing) ==
    {FsParts(PathParts(OsPathNormpath(OsPathJoin(docs_dir, f)))) : f \in existing}

\* The directories on disk: the root, docs_dir and the directories above
\* it, and every directory that holds a file.
DirNodes(file_nodes) ==
    UNION {{SubSeq(n, 1, k) : k \in 0..(Len(n) - 1)} : n \in file_nodes}
        \cup {SubSeq(FsParts(PathParts(docs_dir)), 1, k) :
                 k \in 0..Len(PathParts(docs_dir))}

\* The directory above a directory; the root is above itself.
ParentNode(node) == SubSeq(node, 1, Len(node) - 1)

\* The system's walk along the components of a path, from a node: ".."
\* leads to the directory above, a name to the entry of that name, and
\* both need the node they start from to be a directory (ENOTDIR
\* otherwise, which exists() turns into False).  Looking up a name longer
\* than NameMax fails with ENAMETOOLONG, a missing entry with ENOENT
\* (False).
RECURSIVE Reaches(_, _, _, _)
ReachesEntry(rest, child, file_nodes, dir_nodes) ==
    IF child \in file_nodes \cup dir_nodes
    THEN Reaches(rest, child, file_nodes, dir_nodes)
    ELSE "False"
Reaches(parts, node, file_nodes, dir_nodes) ==
    IF parts = <<>> THEN "True"
    ELSE IF node \notin dir_nodes THEN "False"
    ELSE IF Head(parts) = <<".", ".">>
    THEN Reaches(Tail(parts), ParentNode(node), file_nodes, dir_nodes)
    ELSE IF ByteLen(Head(parts)) > NameMax THEN "OSError"
    ELSE ReachesEntry(Tail(parts), Append(node, Head(parts)), file_nodes, dir_nodes)

ExistsAmong(parts, file_nodes) ==
    Reaches(parts, <<>>, file_nodes, DirNodes(file_nodes))

\* Path(path).exists() for an absolute path: "True", "False", or "OSError"
\* when it raises.  A path that cannot be handed to os.stat does not exist
\* (ValueError, caught); a path of PathMax bytes or more fails with
\* ENAMETOOLONG; else the walk from the root along the components pathlib
\* keeps ends on a file or a directory, misses, or fails with ENAMETOOLONG,
\* the one error of the walk that exists() lets through.
PathExists(path, existing) ==
    IF HasNotEncodable(path) THEN "False"
    ELSE IF ByteLen(FsEncode(path)) >= PathMax THEN "OSError"
    ELSE ExistsAmong(FsParts(PathParts(path)), FileNodes(existing))

\* exists() of each candidate.
probes(expected, existing) ==
    [i \in 1..Len(expected) |-> PathExists(expected[i].path, existing)]

\* The candidate at which the loop stops: the first whose exists() is true
\* or raises, 0 when the loop runs to its end.
first_existing(probed) == Min({i \in 1..Len(probed) : probed[i] # "False"})

\* Path(site_dir) / Path(dest_language) / Path(dest_path)
abs_dest_path_of(language, dest_path) ==
    PathJoin(PathJoin(site_dir, language), dest_path)

\* The file once every field is known; urlquote may have raised
\* UnicodeEncodeError in _get_url.
I18nFileWithUrl(fields, url) ==
    IF url = UnicodeEncodeError
    THEN [raises |-> "UnicodeEncodeError"]
    ELSE [initial_src_path |-> fields.initial_src_path,
          name |-> fields.name,
          locale_suffix |-> fields.locale_suffix,
          src_path |-> fields.src_path,
          abs_src_path |-> fields.abs_src_path,
          dest_name |-> fields.dest_name,
          dest_path |-> fields.dest_path,
          abs_dest_path |-> fields.abs_dest_path,
          dest_language |-> fields.dest_language,
          url |-> url]

\* The body of the candidate loop once dest_name is known; with_suffix may
\* have raised ValueError.
I18nFileMatched(initial_src_path, name, locale_suffix, src_path, dest_name, dest_path, language, udu) ==
    IF dest_name = ValueError
    THEN [raises |-> "ValueError"]
    ELSE I18nFileWithUrl(
             [initial_src_path |-> initial_src_path,
              name |-> name,
              locale_suffix |-> locale_suffix,
              src_path |-> src_path,
              abs_src_path |-> PathJoin(docs_dir, src_path),
              dest_name |-> dest_name,
              dest_path |-> dest_path,
              abs_dest_path |-> abs_dest_path_of(language, dest_path),
              dest_language |-> language],
             get_url(dest_path, language, udu))

\* The body of the candidate loop for the candidate that exists; its
\* relative_to(docs_dir) may have raised ValueError.
I18nFileFound(initial_src_path, name, suffix, locale_suffix, src_path, dest_name, language, udu) ==
    IF src_path = ValueError
    THEN [raises |-> "ValueError"]
    ELSE I18nFileMatched(initial_src_path, name, locale_suffix, src_path, dest_name,
                         get_dest_path(src_path, name, dest_name, udu),
                         language, udu)

\* The else branch of the candidate loop: the fields of file_from are kept.
I18nFileFallback(file_from, name, language, udu) ==
    I18nFileWithUrl(
        [initial_src_path |-> file_from.src_path,
         name |-> name,
         locale_suffix |-> None,
         src_path |-> file_from.src_path,
         abs_src_path |-> file_from.abs_src_path,
         dest_name |-> Unset,
         dest_path |-> file_from.dest_path,
         abs_dest_path |-> file_from.abs_dest_path,
         dest_language |-> language],
        get_url(file_from.dest_path, language, udu))

\* The candidate loop: it stops at the first candidate whose exists() is
\* true, or raises OSError, and falls back when it runs to its end.
I18nFileLoop(file_from, name, suffix, expected, probed, first, language, udu) ==
    IF first = 0
    THEN I18nFileFallback(file_from, name, language, udu)
    ELSE IF probed[first] = "OSError"
    THEN [raises |-> "OSError"]
    ELSE I18nFileFound(
             file_from.src_path, name, suffix, expected[first].locale_suffix,
             PathRelativeTo(expected[first].path, docs_dir),
             IF /\ expected[first].locale_suffix # None
                /\ expected[first].locale_suffix # <<>>
             THEN PathWithSuffix(name, suffix)
             ELSE PathWithSuffix(name, Concat(PathSuffixes(file_from.src_path))),
             language, udu)

I18nFileProbed(file_from, name, suffix, expected, probed, language, udu) ==
    I18nFileLoop(file_from, name, suffix, expected, probed,
                 first_existing(probed), language, udu)

I18nFileStem(file_from, stem, name, suffix, expected, existing, language, udu) ==
    IF stem = ValueError
    THEN [raises |-> "ValueError"]
    ELSE I18nFileProbed(file_from, name, suffix, expected,
                        probes(expected, existing), language, udu)

I18nFileNamed(file_from, stem, name, suffix, language, default_language, udu, existing) ==
    I18nFileStem(file_from, stem, name, suffix,
                 expected_paths(stem, suffix, language, default_language),
                 existing, language, udu)

\* I18nFile.__init__: the file resolved for file_from under the given
\* locales, URL style and files on disk (by their path relative to
\* docs_dir).  The constructor raises ValueError when the initial path has
\* no final component, when the candidate that exists is not under
\* docs_dir, or when the name has no final component as the destination
\* name is built; OSError when exists() fails on a candidate; and
\* UnicodeEncodeError when the URL holds a surrogate.
I18nFile(file_from, language, all_langs, default_language, udu, existing) ==
    I18nFileNamed(file_from,
                  non_i18n_src_path(file_from.src_path, all_langs),
                  get_stem(file_from.src_path, all_langs),
                  PathSuffix(file_from.src_path),
                  language, default_language, udu, existing)

(***************************************************************************)
(* I18nFiles                                                               *)
(***************************************************************************)
\* A variant of append in which the last file of a dest_path wins.
append_last_wins(fls, file) ==
    Append(SelectSeq(fls, LAMBDA f : f.dest_path # file.dest_path), file)

\* I18nFiles.append: a file whose dest_path is already present is dropped;
\* otherwise it is added to _files, and to nothing else.
append(fls, file) ==
    IF \E i \in 1..Len(fls) : fls[i].dest_path = file.dest_path
    THEN fls
    ELSE Append(fls, file)

\* The files self.src_paths is built from: the mapping of source path to
\* file is drawn from the members of the collection.
src_paths(fls) == fls

\* The positions of src that hold the first file of their src_path.
first_of_key(src) ==
    {i \in 1..Len(src) : \A j \in 1..(i - 1) : src[j].src_path # src[i].src_path}

keys_at(src, first) ==
    [k \in 1..Cardinality(first) |->
        src[CHOOSE i \in first : Cardinality({j \in first : j <= i}) = k].src_path]

\* The mapping {file.src_path: file for file in src}: its keys in insertion
\* order ...
src_path_keys(src) == keys_at(src, first_of_key(src))

\* ... and .get(key): the last file stored under the key, or None.
file_at(src, i) == IF i = 0 THEN NoFile ELSE src[i]

src_paths_get(src, key) ==
    file_at(src, Max({i \in 1..Len(src) : src[i].src_path = key}))

\* A variant of the candidate list without the default locale.
expected_src_paths_no_default(path, loc, default) ==
    << PathWithSuffix(path, <<".">> \o loc \o PathSuffix(path)),
       PathStr(path) >>

\* The candidate list of __contains__ and get_file_from_path, each a Path.
expected_src_paths(path, loc, default) ==
    << PathWithSuffix(path, <<".">> \o loc \o PathSuffix(path)),
       PathWithSuffix(path, <<".">> \o default \o PathSuffix(path)),
       PathStr(path) >>

\* Building the candidate list raises ValueError (with_suffix on a path
\* without a final component).
lookup_raises(path, loc, default) ==
    ValueError \in Range(expected_src_paths(path, loc, default))

\* The keys s with Path(s) among the candidates, in the mapping's order.
keys_among(keys, candidates) ==
    SelectSeq(keys, LAMBDA s : PathStr(s) \in candidates)

\* filter(lambda s: Path(s) in expected_src_paths, self.src_paths)
matching_keys(src, path, loc, default) ==
    keys_among(src_path_keys(src), Range(expected_src_paths(path, loc, default)))

\* any(keys): a key is true when it is not the empty string.
any_key(keys) == \E k \in 1..Len(keys) : keys[k] # <<>>

\* I18nFiles.__contains__
contains(fls, path, loc, default) ==
    any_key(matching_keys(src_paths(fls), path, loc, default))

\* src_paths.get(os.path.normpath(s)) for the first matching key s, None
\* when there is none.
first_match(src, keys) ==
    IF keys = <<>> THEN NoFile ELSE src_paths_get(src, OsPathNormpath(keys[1]))

get_file_from(src, path, loc, default) ==
    first_match(src, matching_keys(src, path, loc, default))

\* I18nFiles.get_file_from_path
get_file_from_path(fls, path, loc, default) ==
    get_file_from(src_paths(fls), path, loc, default)

(***************************************************************************)
(* Locale                                                                  *)
(***************************************************************************)
Lower == {"a", "b", "c", "d", "e", "f", "g", "h", "i", "j", "k", "l", "m",
          "n", "o", "p", "q", "r", "s", "t", "u", "v", "w", "x", "y", "z"}
Upper == {"A", "B", "C", "D", "E", "F", "G", "H", "I", "J", "K", "L", "M",
          "N", "O", "P", "Q", "R", "S", "T", "U", "V", "W", "X", "Y", "Z"}

\* The regex anchor $ at position i (1-based, the next character to read):
\* the end of the string, or just before a newline that ends the string.
AtDollar(s, i) == i = Len(s) + 1 \/ (i = Len(s) /\ s[i] = "\n")

\* RE_LOCALE.match(s): (^[a-z]{2}_[A-Z]{2}$)|(^[a-z]{2}$)
RE_LOCALE_match(s) ==
    \/ /\ Len(s) >= 5
       /\ s[1] \in Lower /\ s[2] \in Lower /\ s[3] = "_"
       /\ s[4] \in Upper /\ s[5] \in Upper
       /\ AtDollar(s, 6)
    \/ /\ Len(s) >= 2
       /\ s[1] \in Lower /\ s[2] \in Lower
       /\ AtDollar(s, 3)

\* A key of a mapping that is not a string.
NotAString == <<"<not a str>">>

\* Locale._validate_locale: the error it raises, "" when it returns.
\* RE_LOCALE.match raises TypeError on a value that is not a string.
validate_locale(s) ==
    IF s = NotAString THEN "TypeError"
    ELSE IF ~RE_LOCALE_match(s) THEN "ValidationError"
    ELSE ""

\* len(value) of a str or a dict.
ValueLen(v) == IF v.kind = "str" THEN Len(v.s) ELSE Len(v.items)

\* Type.run_validation, called on line 30: the reason it raises
\* ValidationError ("type" for a value that is not of the option's type,
\* else "length" for a value that is not of the option's length, if it has
\* one), "" when it returns the value.
type_validation(option, v) ==
    IF v.kind # option.type THEN "type"
    ELSE IF option.has_length /\ ValueLen(v) # option.length THEN "length"
    ELSE ""

\* The strings _validate_locale is called on, in order.
checked_strings(v) ==
    IF v.kind = "str" THEN <<v.s>>
    ELSE [i \in 1..Len(v.items) |-> v.items[i].key]

\* Locale.run_validation of an option (a type, str or dict, and maybe a
\* length) on a value: a str, a dict (a sequence of items with distinct
\* keys) or a value of another kind.  A value the type check lets through
\* is a str or a dict; the error of the locale check is that of the first
\* offending string, which a ValidationError names.
run_validation(option, v) ==
    LET reason == type_validation(option, v)
        checked == checked_strings(v)
        first_bad == Min({i \in 1..Len(checked) : validate_locale(checked[i]) # ""})
    IN  IF reason # ""
        THEN [op |-> "run_validation", raised |-> TRUE, error |-> "ValidationError",
              reason |-> reason]
        ELSE IF first_bad = 0
        THEN [op |-> "run_validation", raised |-> FALSE, returned |-> v]
        ELSE [op |-> "run_validation", raised |-> TRUE,
              error |-> validate_locale(checked[first_bad]), reason |-> "locale",
              received |-> checked[first_bad]]

(***************************************************************************)
(* Inputs: the paths the walker discovers, the states of the file system,  *)
(* the locale configurations, the paths looked up, the config values.      *)
(***************************************************************************)
pIntro     == <<"user", " ", "guide", "/", "intro", ".", "md">>
pIntroFr   == <<"user", " ", "guide", "/", "intro", ".", "fr", ".", "md">>
pIntroEn   == <<"user", " ", "guide", "/", "intro", ".", "en", ".", "md">>
pIntroEnFr == <<"user", " ", "guide", "/", "intro", ".", "en", ".", "fr", ".", "md">>
pReadme    == <<"user", " ", "guide", "/", "README", ".", "md">>
pIndex     == <<"index", ".", "md">>
pIndexFr   == <<"index", ".", "fr", ".", "md">>
pAbout     == <<"about", ".", "md">>
pImg       == <<"img", ".", "png">>
pImgFr     == <<"img", ".", "fr", ".", "png">>
pImgDe     == <<"img", ".", "de", ".", "png">>
pLib       == <<"lib", ".", "min", ".", "js">>
pLibFr     == <<"lib", ".", "min", ".", "fr", ".", "js">>
pLibEn     == <<"lib", ".", "min", ".", "en", ".", "js">>
pNotes     == <<"notes", ".", "fr">>
pLicense   == <<"LICENSE">>
pArchive   == <<"data", ".", "fr", ".", "tar", ".", "gz">>
pCafe      == <<"caf", "é", ".", "md">>
pCafeFr    == <<"caf", "é", ".", "fr", ".", "md">>

\* A word of n letters, one half after the other.
RECURSIVE Letters(_)
Letters(n) ==
    IF n = 0 THEN ""
    ELSE IF n = 1 THEN "a"
    ELSE Letters(n \div 2) \o Letters(n - (n \div 2))

\* A file name of NameMax - 2 bytes: with ".fr" or ".en" inserted it is
\* longer than a name may be.
pLong      == <<Letters(NameMax - 5), ".", "md">>

\* The paths handed to the I18nFile constructor.
InitialPaths ==
    {pIntro, pIntroFr, pIntroEn, pIntroEnFr, pReadme, pIndex, pIndexFr, pAbout,
     pImg, pImgFr, pImgDe, pLib, pLibFr, pNotes, pLicense, pArchive, pCafe,
     pLong}

\* Every combination of the three variants of one page, in two surroundings.
FileSystems ==
    {S \cup R : S \in SUBSET {pIntro, pIntroFr, pIntroEn},
                R \in { {pIntroEnFr, pReadme, pIndex, pAbout, pImg, pImgFr,
                         pImgDe, pLibFr, pLibEn, pNotes, pLicense, pArchive,
                         pCafeFr, pLong},
                        {pIndexFr, pImg, pLib} }}

\* The requested and the default locale; "en\n" is a locale that
\* Locale.run_validation lets through.
LocalePairs ==
    {<< <<"fr">>, <<"en">> >>, << <<"en">>, <<"en">> >>,
     << <<"en", "\n">>, <<"en">> >>}

LanguageLists ==
    {<< <<"en">>, <<"fr">>, <<"de">> >>, << <<"fr">>, <<"en">> >>,
     << <<"en">>, <<"fr">>, <<"en", "\n">> >>}

\* A locale pair with a language list that holds both locales.
Configurations ==
    {c \in LocalePairs \X LanguageLists : {c[1][1], c[1][2]} \subseteq Range(c[2])}

\* The paths discovered during one build, and the file systems it runs on.
WalkerPaths == {pIntro, pIntroEnFr, pImg, pImgFr}

BuildFileSystems ==
    { {pIntro, pIntroFr, pIntroEn, pIntroEnFr, pImg, pImgFr},
      {pIntro, pImg, pImgFr},
      {pIntroEn, pIntroEnFr} }

\* The paths looked up: logical paths, a localized one, a path without an
\* extension, and the directory ".", for which building the candidates
\* raises.
LookupPaths == {pIntro, pImg, pIntroEn, pLicense, <<".">>}

LocaleChars == {"e", "U", "_", "\n", "-"}

StrValues ==
    {[kind |-> "str", s |-> s] :
        s \in UNION {[1..n -> LocaleChars] : n \in 0..MaxLocaleLen}}

DictKeys == {<<"e", "n">>, <<"f", "r", "_", "F", "R">>, <<"E", "N">>,
             <<"e", "n", "\n">>, NotAString}

DictValues ==
    {[kind |-> "dict", items |-> <<>>]}
    \cup {[kind |-> "dict", items |-> <<[key |-> k, val |-> v]>>] :
            k \in DictKeys, v \in {"English", ""}}
    \cup {[kind |-> "dict",
           items |-> <<[key |-> kk[1], val |-> "A"], [key |-> kk[2], val |-> "B"]>>] :
            kk \in {x \in DictKeys \X DictKeys : x[1] # x[2]}}

\* The values: strings, mappings, and values that are neither.
ConfigValues ==
    StrValues \cup DictValues
        \cup {[kind |-> "int", n |-> 2], [kind |-> "list", items |-> <<>>]}

\* The options: Locale(str), Locale(dict), and Locale(str, length=2).
LocaleOptions ==
    {[type |-> "str", has_length |-> FALSE, length |-> 0],
     [type |-> "dict", has_length |-> FALSE, length |-> 0],
     [type |-> "str", has_length |-> TRUE, length |-> 2]}

\* The use_directory_urls argument: a boolean, or the None the
\* constructor takes by default.
UseDirectoryUrls == {"True", "False", "None"}

NoInput == <<>>

(***************************************************************************)
(* The build: each discovered path is resolved and appended to the         *)
(* collection, which is queried by logical path.                           *)
(***************************************************************************)
Init ==
    /\ \E c \in Configurations :
           /\ c[2] = << <<"en">>, <<"fr">>, <<"de">> >>
           /\ locale = c[1][1] /\ default_locale = c[1][2] /\ all_languages = c[2]
    /\ use_directory_urls = "True"
    /\ fs \in BuildFileSystems
    /\ files = <<>>
    /\ appended = <<>>
    /\ input = NoInput
    /\ ret = Idle

Resolved(path) ==
    I18nFile(FileFrom(path, use_directory_urls), locale, all_languages,
             default_locale, use_directory_urls, fs)

\* collection.append(I18nFile(file_from, ...)) for a discovered path; a
\* constructor that raises leaves nothing to append.
AppendResolved(file) ==
    /\ Len(appended) < MaxAppends
    /\ "raises" \notin DOMAIN file
    /\ files' = append(files, file)
    /\ appended' = Append(appended, file)
    /\ ret' = [op |-> "append"]
    /\ UNCHANGED <<locale, default_locale, all_languages, use_directory_urls,
                   fs, input>>

AppendFile(path) == AppendResolved(Resolved(path))

\* path in collection
Contains(path) ==
    /\ ret' = IF lookup_raises(path, locale, default_locale)
               THEN [op |-> "contains", path |-> path, raises |-> "ValueError"]
               ELSE [op |-> "contains", path |-> path, raises |-> "",
                     result |-> contains(files, path, locale, default_locale)]
    /\ UNCHANGED <<locale, default_locale, all_languages, use_directory_urls,
                   fs, files, appended, input>>

\* collection.get_file_from_path(path)
GetFileFromPath(path) ==
    /\ ret' = IF lookup_raises(path, locale, default_locale)
               THEN [op |-> "get_file_from_path", path |-> path,
                     raises |-> "ValueError"]
               ELSE [op |-> "get_file_from_path", path |-> path, raises |-> "",
                     result |-> get_file_from_path(files, path, locale,
                                                   default_locale)]
    /\ UNCHANGED <<locale, default_locale, all_languages, use_directory_urls,
                   fs, files, appended, input>>

Next ==
    \/ \E path \in WalkerPaths : AppendFile(path)
    \/ \E path \in LookupPaths : Contains(path)
    \/ \E path \in LookupPaths : GetFileFromPath(path)

Spec == Init /\ [][Next]_vars

(***************************************************************************)
(* Resolution of one file: I18nFile(...) is constructed once, for an       *)
(* initial path, a locale configuration and a file system drawn at Init.   *)
(***************************************************************************)
InitResolve ==
    /\ \E c \in Configurations :
           locale = c[1][1] /\ default_locale = c[1][2] /\ all_languages = c[2]
    /\ use_directory_urls \in UseDirectoryUrls
    /\ fs \in FileSystems
    /\ files = <<>>
    /\ appended = <<>>
    /\ input \in InitialPaths
    /\ ret = Idle

Construct ==
    /\ ret = Idle
    /\ ret' = [op |-> "I18nFile", file |-> Resolved(input)]
    /\ UNCHANGED <<locale, default_locale, all_languages, use_directory_urls,
                   fs, files, appended, input>>

NextResolve == Construct

SpecResolve == InitResolve /\ [][NextResolve]_vars

(***************************************************************************)
(* Configuration validation: Locale.run_validation is called once, on a    *)
(* config value drawn at Init.                                             *)
(***************************************************************************)
InitLocale ==
    /\ locale = <<"fr">> /\ default_locale = <<"en">>
    /\ all_languages = << <<"en">>, <<"fr">>, <<"de">> >>
    /\ use_directory_urls = "True"
    /\ fs = {}
    /\ files = <<>>
    /\ appended = <<>>
    /\ input \in [option : LocaleOptions, value : ConfigValues]
    /\ ret = Idle

RunValidation ==
    /\ ret = Idle
    /\ ret' = run_validation(input.option, input.value)
    /\ UNCHANGED <<locale, default_locale, all_languages, use_directory_urls,
                   fs, files, appended, input>>

NextLocale == RunValidation

SpecLocale == InitLocale /\ [][NextLocale]_vars


(***************************************************************************)
(* Properties                                                              *)
(***************************************************************************)
\* The members of seq that are the first of their dest_path, in order.
FirstOccurrences(seq) ==
    LET keep == {i \in 1..Len(seq) :
                    \A j \in 1..(i - 1) : seq[j].dest_path # seq[i].dest_path}
        nth(k) == CHOOSE i \in keep : Cardinality({j \in keep : j <= i}) = k
    IN  [k \in 1..Cardinality(keep) |-> seq[nth(k)]]

\* C1: after any sequence of appends the member list is the appended files
\* filtered to the first occurrence of each dest_path, in insertion order;
\* no two members share a dest_path and the length is the number of
\* distinct dest_paths appended.
C1_AppendKeepsFirstOccurrences ==
    /\ files = FirstOccurrences(appended)
    /\ \A i, j \in 1..Len(files) :
           files[i].dest_path = files[j].dest_path => i = j
    /\ Len(files) = Cardinality({appended[i].dest_path : i \in 1..Len(appended)})

\* C1 witness: a third append repeats the dest_path of the first member
\* with a different file, and the two earlier members stay as they were.
C1_Witness ==
    /\ Len(appended) = 3
    /\ appended[3].dest_path = appended[1].dest_path
    /\ appended[3] # appended[1]
    /\ appended[2].dest_path # appended[1].dest_path
    /\ files = <<appended[1], appended[2]>>

\* The constructor was called ...
Built == ret.op = "I18nFile"

\* ... and returned a file.
Constructed == Built /\ "raises" \notin DOMAIN ret.file

\* The extension of a path: its final component from its last dot on, when
\* that dot neither leads nor ends the component.
ExtensionOf(p) ==
    LET dot == LastIndexOf(p, ".")
    IN  IF LastIndexOf(p, "/") + 1 < dot /\ dot < Len(p)
        THEN SubSeq(p, dot, Len(p)) ELSE <<>>

WithoutExtension(p) == SubSeq(p, 1, Len(p) - Len(ExtensionOf(p)))

\* The logical stem of a path: the path without its extension and without
\* the configured-locale token that sits right before the extension.
LogicalStem(p) ==
    LET base == WithoutExtension(p)
        token == ExtensionOf(base)
    IN  IF ExtensionOf(p) # <<>> /\ token # <<>> /\ Tail(token) \in Range(all_languages)
        THEN WithoutExtension(base)
        ELSE base

\* The three candidates of the constructed file, from its logical stem.
Candidate(loc) ==
    LogicalStem(input)
        \o (IF loc = None THEN <<>> ELSE <<".">> \o loc) \o ExtensionOf(input)

\* C2: for every initial path, locales and file system, construction does
\* not fail, and the source path is the first existing one of
\* <stem>.<requested><ext>, <stem>.<default><ext>, <stem><ext>, with
\* locale_suffix the requested locale, the default locale or none; if none
\* exists the source path is the initial path and locale_suffix is none.
C2_SourceIsFirstExistingCandidate ==
    Built =>
        /\ "raises" \notin DOMAIN ret.file
        /\ Candidate(locale) \in fs =>
               ret.file.src_path = Candidate(locale) /\ ret.file.locale_suffix = locale
        /\ Candidate(locale) \notin fs /\ Candidate(default_locale) \in fs =>
               /\ ret.file.src_path = Candidate(default_locale)
               /\ ret.file.locale_suffix = default_locale
        /\ /\ Candidate(locale) \notin fs
           /\ Candidate(default_locale) \notin fs
           /\ Candidate(None) \in fs
           => ret.file.src_path = Candidate(None) /\ ret.file.locale_suffix = None
        /\ /\ Candidate(locale) \notin fs
           /\ Candidate(default_locale) \notin fs
           /\ Candidate(None) \notin fs
           => ret.file.src_path = input /\ ret.file.locale_suffix = None

\* C3: for every resolved file, matched or fallen back to the original, the
\* absolute destination is <site_dir>/<requested_locale>/<dest_path>, and the
\* URL carries the same locale prefix.
C3_DestinationUnderRequestedLocale ==
    Constructed =>
        /\ ret.file.abs_dest_path =
               site_dir \o <<"/">> \o locale \o <<"/">> \o ret.file.dest_path
        /\ SubSeq(ret.file.url, 1, Len(locale) + 1) = locale \o <<"/">>

\* A candidate matched (dest_name is set on that branch only).
Matched(f) == f.dest_name # Unset

Under(parent, rest) == IF parent = <<>> THEN rest ELSE parent \o <<"/">> \o rest

\* A text of letters, digits, "_", "-", "~", "." and "/" only, which
\* percent-encoding leaves as it is.
Unreserved(s) == \A i \in 1..Len(s) : ~IsSpecial(s[i])

IsMatchedPage == Constructed /\ Matched(ret.file) /\ is_documentation_page(ret.file.src_path)

\* The parent directory P of the source.
ParentOf(f) == OsPathSplit(f.src_path).head

\* C4: for a matched page written with unreserved characters, locale L and
\* parent P: with directory-style URLs enabled the URL is L/P/<name>/, L/P/
\* for an index and L/ for a root index; with directory-style URLs
\* disabled it is L/P/<name>.html; the URL always begins with L/, and the
\* destination path and the URL follow the same style: <name>/index.html
\* with L/P/<name>/, or <name>.html with L/P/<name>.html.
C4_UrlFollowsDirectoryStyle ==
    IsMatchedPage /\ Unreserved(locale) /\ Unreserved(ret.file.src_path) =>
        /\ use_directory_urls = "True" =>
               ret.file.url =
                   IF ret.file.name # <<"index">>
                   THEN locale \o <<"/">> \o Under(ParentOf(ret.file), ret.file.name) \o <<"/">>
                   ELSE IF ParentOf(ret.file) # <<>>
                   THEN locale \o <<"/">> \o ParentOf(ret.file) \o <<"/">>
                   ELSE locale \o <<"/">>
        /\ use_directory_urls = "False" =>
               ret.file.url =
                   locale \o <<"/">>
                       \o Under(ParentOf(ret.file), ret.file.name \o <<".", "html">>)
        /\ SubSeq(ret.file.url, 1, Len(locale) + 1) = locale \o <<"/">>
        /\ ret.file.name # <<"index">> =>
               \/ /\ ret.file.dest_path =
                          Under(ParentOf(ret.file),
                                ret.file.name \o <<"/", "index", ".", "html">>)
                  /\ ret.file.url =
                          locale \o <<"/">> \o Under(ParentOf(ret.file), ret.file.name)
                              \o <<"/">>
               \/ /\ ret.file.dest_path =
                          Under(ParentOf(ret.file), ret.file.name \o <<".", "html">>)
                  /\ ret.file.url =
                          locale \o <<"/">>
                              \o Under(ParentOf(ret.file), ret.file.name \o <<".", "html">>)

\* p with .<loc> inserted before its extension (at its end when it has
\* none).
InsertBeforeExtension(p, loc) ==
    WithoutExtension(p) \o <<".">> \o loc \o ExtensionOf(p)

\* The members whose source path is the given one.
MembersAt(p) == {i \in 1..Len(files) : files[i].src_path = p}

\* C5: for a path p with an extension, `p in collection` returns, and is
\* true iff a member's source path is p with the requested locale inserted
\* before its extension, p with the default locale inserted, or p.
C5_ContainsAnyCandidateForm ==
    ret.op = "contains" /\ ExtensionOf(ret.path) # <<>> =>
        /\ ret.raises = ""
        /\ ret.result <=>
               \/ MembersAt(InsertBeforeExtension(ret.path, locale)) # {}
               \/ MembersAt(InsertBeforeExtension(ret.path, default_locale)) # {}
               \/ MembersAt(ret.path) # {}

\* C5 witness: the lookup is true through the default-locale form alone:
\* no member has the requested-locale form or the bare path.
C5_Witness ==
    /\ ret.op = "contains" /\ ExtensionOf(ret.path) # <<>>
    /\ ret.raises = "" /\ ret.result
    /\ locale # default_locale
    /\ MembersAt(InsertBeforeExtension(ret.path, locale)) = {}
    /\ MembersAt(InsertBeforeExtension(ret.path, default_locale)) # {}
    /\ MembersAt(ret.path) = {}

\* C6: get_file_from_path returns the member of the highest-priority form
\* present (requested, then default, then bare), whatever the order of the
\* appends, and no file exactly when `p in collection` is false.
C6_LookupReturnsBestVariant ==
    ret.op = "get_file_from_path" /\ ret.raises = "" =>
        LET p1 == InsertBeforeExtension(ret.path, locale)
            p2 == InsertBeforeExtension(ret.path, default_locale)
        IN  /\ ret.result.src_path =
                   IF MembersAt(p1) # {} THEN p1
                   ELSE IF MembersAt(p2) # {} THEN p2
                   ELSE IF MembersAt(ret.path) # {} THEN ret.path
                   ELSE NoFile.src_path
            /\ (ret.result = NoFile) <=>
                   ~contains(files, ret.path, locale, default_locale)

\* The logical document of a discovered path: the path without the
\* configured-locale token that sits right before its extension.
LogicalDocument(p) == LogicalStem(p) \o ExtensionOf(p)

\* C7: the variants of one logical document that exist on disk, appended in
\* any order, leave one member in the collection for that document.
C7_OneMemberPerLogicalDocument ==
    \A i, j \in 1..Len(files) :
        /\ files[i].initial_src_path \in fs
        /\ files[j].initial_src_path \in fs
        /\ LogicalDocument(files[i].initial_src_path)
               = LogicalDocument(files[j].initial_src_path)
        => i = j

\* A whole string that is ll or ll_UU.
WellFormedLocale(s) ==
    \/ Len(s) = 2 /\ s[1] \in Lower /\ s[2] \in Lower
    \/ /\ Len(s) = 5
       /\ s[1] \in Lower /\ s[2] \in Lower /\ s[3] = "_"
       /\ s[4] \in Upper /\ s[5] \in Upper

\* The strings the claim has checked: the string, or the keys of the
\* mapping.
CheckedStrings(v) ==
    IF v.kind = "str" THEN {v.s} ELSE {v.items[i].key : i \in 1..Len(v.items)}

\* C8: on a string or a mapping, of the option's type, run_validation
\* raises iff the string, or a key of the mapping, is not wholly ll or
\* ll_UU; the validation error names an offending value and an accepted
\* value is returned unchanged.
C8_ValidationAcceptsExactlyLocales ==
    /\ ret.op = "run_validation"
    /\ input.value.kind = input.option.type
    /\ ~input.option.has_length
    => /\ ret.raised <=> \E s \in CheckedStrings(input.value) : ~WellFormedLocale(s)
       /\ ret.raised /\ ret.error = "ValidationError" =>
              /\ ret.received \in CheckedStrings(input.value)
              /\ ~WellFormedLocale(ret.received)
       /\ ret.raised /\ input.value.kind = "str" => ret.error = "ValidationError"
       /\ ~ret.raised => ret.returned = input.value

\* C9: a non-page asset whose matched candidate carries a locale suffix gets
\* the destination file name <name><ext>: only the locale token is dropped.
C9_AssetKeepsNameAndExtension ==
    /\ Constructed
    /\ Matched(ret.file)
    /\ ~is_documentation_page(ret.file.src_path)
    /\ ret.file.locale_suffix # None
    => PathName(ret.file.dest_path) = ret.file.name \o PathSuffix(input)

\* C10: a locale is detected only in <stem>.<locale>.<ext> with a configured
\* locale right before the extension, and the logical stem then satisfies
\* stem + "." + locale + ext = initial path; with no locale detected,
\* stem + ext = initial path.
C10_StemRebuildsInitialPath ==
    Constructed =>
        LET detected == is_localized_for(input, all_languages)
            stem == non_i18n_src_path(input, all_languages)
        IN  IF detected = None
            THEN stem \o PathSuffix(input) = input
            ELSE /\ detected \in Range(all_languages)
                 /\ stem \o <<".">> \o detected \o PathSuffix(input) = input

====
